---- MODULE Spec2Model ----
(***************************************************************************)
(* Model of the ERTC webhook receiver.                                     *)
(*                                                                         *)
(* The revenue-qualification analysis: generateExcelReport of              *)
(* src/excel-generator.js, lines 171-311 (the 'Revenue Analysis' worksheet *)
(* and the qualificationData built from it); specification Spec.           *)
(*                                                                         *)
(* The POST /webhook handler of src/webhook-receiver.js, lines 59-282,     *)
(* which calls the analysis; specifications SpecWebhook and                *)
(* FairSpecWebhook.                                                        *)
(*                                                                         *)
(* connectToDatabase of src/db-connection.js, lines 8-60; specification    *)
(* SpecDb.                                                                 *)
(*                                                                         *)
(* JavaScript values are records [type, nan, num, str].  A number with at  *)
(* most two decimals is held exactly, as an integer count of hundredths    *)
(* (num = 100 * value); the unrounded percentage, which has more decimals, *)
(* is held as a fraction [num, den].  Strings are TLA+ strings and are     *)
(* formatted and parsed character by character.                            *)
(*                                                                         *)
(* The ExcelJS worksheet is the sequence of its rows (row r is sheet[r]),  *)
(* a row the sequence of its cell values.  Worksheet.addRow writes the row *)
(* after the last existing one; Worksheet.getRow(r) CREATES an empty row r *)
(* when there is none; the value of a cell never written is null.          *)
(***************************************************************************)
EXTENDS Integers, Sequences, FiniteSets, TLC

VARIABLES
    grossSales2019,     \* requestedInfo.gross_sales_2019 of the submission
    grossSales2021,     \* requestedInfo.gross_sales_2021 of the submission
    analysisSheet,      \* rows of the 'Revenue Analysis' worksheet
    qualifyingQuarters, \* the array of line 243
    quarterAnalysis,    \* entries built by the map callback of line 277
    pc,                 \* how far the last generateExcelReport call got
    now,                \* Date.now()
    running,            \* the node process is alive
    request,            \* the POST /webhook handler of each request
    response,           \* the HTTP response each request got
    submissionFiles,    \* the submission_<id>.json files on disk
    collection,         \* the Submission documents saved in MongoDB
    uriDefined,         \* MONGODB_URI is set in the environment
    isConnected,        \* the flag of db-connection.js, line 9
    connectionAttempted,\* the flag of db-connection.js, line 10
    mongooseConnected,  \* mongoose holds an established connection
    connectCalls,       \* how many times mongoose.connect was invoked
    caller              \* the connectToDatabase calls

analysisVars == <<grossSales2019, grossSales2021, analysisSheet,
                  qualifyingQuarters, quarterAnalysis, pc>>

webhookVars == <<now, running, request, response, submissionFiles, collection>>

dbVars == <<uriDefined, isConnected, connectionAttempted, mongooseConnected,
            connectCalls, caller>>

vars == <<analysisVars, webhookVars, dbVars>>

-----------------------------------------------------------------------------
(* JavaScript values *)

Undefined == [type |-> "undefined", nan |-> FALSE, num |-> 0, str |-> ""]
Null == [type |-> "null", nan |-> FALSE, num |-> 0, str |-> ""]
NaN == [type |-> "number", nan |-> TRUE, num |-> 0, str |-> ""]
Num(h) == [type |-> "number", nan |-> FALSE, num |-> h, str |-> ""]
Str(s) == [type |-> "string", nan |-> FALSE, num |-> 0, str |-> s]

\* A whole amount n as hundredths.
Whole(n) == Num(n * 100)

\* ToBoolean: undefined, null, 0, NaN and '' are falsy.
Truthy(x) ==
    CASE x.type = "number" -> ~x.nan /\ x.num # 0
      [] x.type = "string" -> x.str # ""
      [] OTHER -> FALSE

\* x || y
OrElse(x, y) == IF Truthy(x) THEN x ELSE y

\* a - b on numbers
Minus(a, b) == IF a.nan \/ b.nan THEN NaN ELSE Num(a.num - b.num)

\* a === b (NaN equals nothing)
StrictEquals(a, b) == a = b /\ ~(a.type = "number" /\ a.nan)

-----------------------------------------------------------------------------
(* Strings *)

CharAt(s, i) == SubSeq(s, i, i)

DigitChars == <<"0", "1", "2", "3", "4", "5", "6", "7", "8", "9">>

IsDigit(c) == \E d \in 1..10 : DigitChars[d] = c

DigitValue(c) == (CHOOSE d \in 1..10 : DigitChars[d] = c) - 1

\* String.prototype.toUpperCase on the letters that occur in the quarter keys.
UpperChar(c) == IF c = "q" THEN "Q" ELSE c

RECURSIVE ToUpperCase(_)
ToUpperCase(s) ==
    IF Len(s) = 0 THEN ""
    ELSE UpperChar(CharAt(s, 1)) \o ToUpperCase(Tail(s))

\* String.prototype.replace(pattern, replacement) with a one-character string
\* pattern: the first occurrence only.
RECURSIVE Replace(_, _, _)
Replace(s, pattern, replacement) ==
    IF Len(s) = 0 THEN ""
    ELSE IF CharAt(s, 1) = pattern THEN replacement \o Tail(s)
    ELSE CharAt(s, 1) \o Replace(Tail(s), pattern, replacement)

\* Array.prototype.join
RECURSIVE Join(_, _)
Join(list, sep) ==
    IF Len(list) = 0 THEN ""
    ELSE IF Len(list) = 1 THEN list[1]
    ELSE list[1] \o sep \o Join(Tail(list), sep)

\* Decimal digits of a natural number.
RECURSIVE Digits(_)
Digits(n) ==
    IF n < 10 THEN DigitChars[n + 1]
    ELSE Digits(n \div 10) \o DigitChars[(n % 10) + 1]

\* Value of a string of decimal digits.
RECURSIVE DecimalValue(_)
DecimalValue(s) ==
    IF Len(s) = 0 THEN 0
    ELSE DecimalValue(SubSeq(s, 1, Len(s) - 1)) * 10 + DigitValue(CharAt(s, Len(s)))

\* First position at or after i that holds no digit.
RECURSIVE ScanDigits(_, _)
ScanDigits(s, i) ==
    IF i <= Len(s) /\ IsDigit(CharAt(s, i)) THEN ScanDigits(s, i + 1) ELSE i

\* parseFloat of a string: an optional sign, digits, an optional fraction; the
\* longest such prefix is the value and what follows is ignored; NaN when the
\* prefix has no digit.  Fraction digits after the second are dropped (no string
\* of the model has more than two).
ParseFloatString(s) ==
    LET neg == Len(s) >= 1 /\ CharAt(s, 1) = "-"
        start == IF Len(s) >= 1 /\ CharAt(s, 1) \in {"-", "+"} THEN 2 ELSE 1
        endInt == ScanDigits(s, start)
        intDigits == SubSeq(s, start, endInt - 1)
        hasDot == endInt <= Len(s) /\ CharAt(s, endInt) = "."
        endFrac == IF hasDot THEN ScanDigits(s, endInt + 1) ELSE endInt
        fracDigits == IF hasDot THEN SubSeq(s, endInt + 1, endFrac - 1) ELSE ""
        frac2 == SubSeq(fracDigits \o "00", 1, 2)
        magnitude == DecimalValue(intDigits) * 100 + DecimalValue(frac2)
    IN  IF Len(intDigits) = 0 /\ Len(fracDigits) = 0 THEN NaN
        ELSE Num(IF neg THEN -magnitude ELSE magnitude)

\* parseFloat(x): a number is returned as is, a string is parsed, undefined and
\* null give NaN.
ParseFloat(x) ==
    CASE x.type = "number" -> x
      [] x.type = "string" -> ParseFloatString(x.str)
      [] OTHER -> NaN

\* Number.prototype.toFixed(2) of the fraction p.num / p.den (p.den > 0): the
\* sign when negative, then the magnitude rounded to the nearest hundredth, the
\* larger one on a tie.
ToFixed2(p) ==
    LET magnitude == IF p.num < 0 THEN -p.num ELSE p.num
        whole == magnitude \div p.den
        rest == magnitude % p.den
        h == whole * 100 + (2 * 100 * rest + p.den) \div (2 * p.den)
    IN  (IF p.num < 0 THEN "-" ELSE "")
        \o Digits(h \div 100) \o "."
        \o DigitChars[((h % 100) \div 10) + 1] \o DigitChars[(h % 10) + 1]

-----------------------------------------------------------------------------
(* The worksheet (ExcelJS) *)

\* Worksheet.addRow(values): the row after the last existing row.
AddRow(sheet, values) == Append(sheet, values)

\* Worksheet.getRow(r): the worksheet afterwards; a row that does not exist yet
\* is created empty and kept.
GetRow(sheet, r) ==
    IF r <= Len(sheet) THEN sheet
    ELSE sheet \o [i \in 1..(r - Len(sheet)) |-> <<>>]

\* row.getCell(c).value: null for a cell never written.
GetCell(row, c) == IF c <= Len(row) THEN row[c] ELSE Null

\* analysisSheet.columns = [...]: the headers are written to row 1.
HeaderRow ==
    <<Str("Quarter"), Str("2019 Revenue"), Str("2021 Revenue"),
      Str("Revenue Change"), Str("Percent Decrease"),
      Str("Qualifies (>50% Decrease)")>>

TextRow(s) == <<Str(s), Str(""), Str(""), Str(""), Str(""), Str("")>>

\* The title and description rows.
IntroRows ==
    <<TextRow("Revenue Analysis for Qualification"),
      TextRow("Comparing 2019 vs 2021 quarterly revenue to determine qualification based on revenue reduction"),
      TextRow("Formula: (2019 Revenue - 2021 Revenue) / 2019 Revenue"),
      TextRow("A quarter qualifies if the reduction is more than 50%"),
      TextRow("")>>

-----------------------------------------------------------------------------
(* The analysis *)

quarters == <<"q1", "q2", "q3">>

QuarterKeys == {quarters[i] : i \in 1..Len(quarters)}

\* `Quarter ${q.toUpperCase().replace('Q', '')}`
QuarterLabel(q) == "Quarter " \o Replace(ToUpperCase(q), "Q", "")

\* parseFloat(sales[q]) || 0
Revenue(sales, q) == OrElse(ParseFloat(sales[q]), Num(0))

\* The qualification threshold in percent.
Threshold == 50

\* The verdict taken from the displayed value instead: the percentage rounded to
\* two decimals and parsed back, compared with 50.
QualifiesOnRounded(percentDecrease) ==
    IF ParseFloat(Str(ToFixed2(percentDecrease))).num >= Threshold * 100
    THEN "Yes" ELSE "No"

\* percentDecrease >= 50 on the unrounded fraction.
Qualifies(percentDecrease) ==
    IF percentDecrease.num >= Threshold * percentDecrease.den THEN "Yes" ELSE "No"

\* The number of the worksheet row that getRow(index + 8) reads for index 0.
FirstReadRow == 8

\* The values of the data row of quarter q.
DataRow(q, sales2019, sales2021) ==
    LET revenue2019 == Revenue(sales2019, q)
        revenue2021 == Revenue(sales2021, q)
        positive == revenue2019.num > 0
        change == IF positive THEN Minus(revenue2019, revenue2021) ELSE Num(0)
        percentDecrease ==
            IF positive THEN [num |-> change.num * 100, den |-> revenue2019.num]
            ELSE [num |-> 0, den |-> 1]
        qualifies == IF positive THEN Qualifies(percentDecrease) ELSE "No"
    IN  <<Str(QuarterLabel(q)), revenue2019, revenue2021, change,
          Str(ToFixed2(percentDecrease) \o "%"), Str(qualifies)>>

\* quarters.forEach(q => analysisSheet.addRow([...])) after the header row and
\* the intro rows.
RECURSIVE AddDataRows(_, _, _, _)
AddDataRows(sheet, i, sales2019, sales2021) ==
    IF i > Len(quarters) THEN sheet
    ELSE AddDataRows(AddRow(sheet, DataRow(quarters[i], sales2019, sales2021)),
                     i + 1, sales2019, sales2021)

RECURSIVE AddRows(_, _)
AddRows(sheet, rows) ==
    IF Len(rows) = 0 THEN sheet ELSE AddRows(AddRow(sheet, Head(rows)), Tail(rows))

\* The worksheet once the data rows are added.
SheetWithData(sales2019, sales2021) ==
    AddDataRows(AddRows(<<HeaderRow>>, IntroRows), 1, sales2019, sales2021)

\* The loop that fills qualifyingQuarters: [sheet, list] after the indices from
\* index on (index counts from 0, as in the source).
RECURSIVE CollectQualifying(_, _, _)
CollectQualifying(sheet, index, list) ==
    IF index >= Len(quarters) THEN [sheet |-> sheet, list |-> list]
    ELSE LET s == GetRow(sheet, index + FirstReadRow)
             row == s[index + FirstReadRow]
         IN  CollectQualifying(
                 s, index + 1,
                 IF StrictEquals(GetCell(row, 6), Str("Yes"))
                 THEN Append(list, QuarterLabel(quarters[index + 1]))
                 ELSE list)

\* The summary box.
SummaryRows(list) ==
    <<TextRow(""), TextRow("Summary:"),
      IF Len(list) > 0
      THEN TextRow("Client qualifies based on revenue reduction for: " \o Join(list, ", "))
      ELSE TextRow("Client does not qualify based on revenue reduction alone")>>

\* The entry the map callback returns for index, given the text of cell 5.
QuarterEntry(sheet, index, sales2019, sales2021) ==
    LET q == quarters[index + 1]
        row == GetRow(sheet, index + FirstReadRow)[index + FirstReadRow]
        percentDecreaseText == GetCell(row, 5)
        percentDecreaseValue == ParseFloat(Str(Replace(percentDecreaseText.str, "%", "")))
    IN  [quarter |-> QuarterLabel(q),
         revenues |-> [revenue2019 |-> Revenue(sales2019, q),
                       revenue2021 |-> Revenue(sales2021, q)],
         change |-> Minus(ParseFloat(OrElse(sales2019[q], Num(0))),
                          ParseFloat(OrElse(sales2021[q], Num(0)))),
         percentDecrease |-> percentDecreaseValue,
         qualifies |-> StrictEquals(GetCell(row, 6), Str("Yes"))]

\* percentDecreaseText.replace throws a TypeError unless the cell holds a string.
EntryThrows(sheet, index) ==
    LET row == GetRow(sheet, index + FirstReadRow)[index + FirstReadRow]
    IN  GetCell(row, 5).type # "string"

\* quarters.map(...): the entries built, and whether a callback threw.
RECURSIVE MapQuarters(_, _, _, _, _)
MapQuarters(sheet, index, entries, sales2019, sales2021) ==
    IF index >= Len(quarters) THEN [entries |-> entries, threw |-> FALSE]
    ELSE IF EntryThrows(sheet, index) THEN [entries |-> entries, threw |-> TRUE]
    ELSE MapQuarters(sheet, index + 1,
                     Append(entries, QuarterEntry(sheet, index, sales2019, sales2021)),
                     sales2019, sales2021)

-----------------------------------------------------------------------------
(* The state machine *)

\* The (gross_sales_2019[q], gross_sales_2021[q]) figures a submission of the
\* model gives a quarter.
FigurePairs ==
    { <<Whole(25000), Whole(12501)>>,    \* 49.996 %
      <<Whole(1000), Whole(500)>>,       \* exactly 50 %
      <<Whole(1000), Whole(1200)>>,      \* revenue increased
      <<Whole(0), Whole(500)>>,          \* zero baseline
      <<Whole(-1000), Whole(500)>>,      \* negative baseline
      <<Undefined, Undefined>>,          \* quarter absent from both maps
      <<Undefined, Whole(500)>>,         \* baseline absent
      <<Str("abc"), Whole(500)>>,        \* non-numeric baseline
      <<Whole(8000), Whole(0)>>,         \* 100 %
      <<Whole(8000), Undefined>>,        \* comparison absent
      <<Whole(8000), Str("abc")>>,       \* non-numeric comparison
      <<Str("10000"), Str("4000.00")>>,  \* numeric strings, 60 %
      <<Whole(10000), Whole(4000)>>,     \* 60 %
      <<Whole(5000), Whole(5000)>> }     \* no change

NoSales == [q \in QuarterKeys |-> Undefined]

\* path.join(reportsDir, ...) throws a TypeError unless reportsDir is a string.
PathJoinThrows(reportsDir) == reportsDir.type # "string"

\* How far a call gets: to the catch block, or to the await of writeFile.
Outcome(threw, reportsDir) ==
    IF threw \/ PathJoinThrows(reportsDir) THEN "threw" ELSE "writing"

\* The array of the call before, were it kept in the module.
KeptQualifyingQuarters == qualifyingQuarters

\* const qualifyingQuarters = []
NewQualifyingQuarters == <<>>

\* A call of generateExcelReport on a submission with the figures given, from
\* the 'Revenue Analysis' worksheet on, up to the await of
\* workbook.xlsx.writeFile or to the throw that the catch block rethrows.  The
\* code runs without suspension, so the call is one step.
RunAnalysis(sales2019, sales2021, reportsDir) ==
    /\ grossSales2019' = sales2019
    /\ grossSales2021' = sales2021
    /\ \E data \in {SheetWithData(sales2019, sales2021)} :
       \E collected \in {CollectQualifying(data, 0, NewQualifyingQuarters)} :
       \E summary \in {AddRows(collected.sheet, SummaryRows(collected.list))} :
       \E mapped \in {MapQuarters(summary, 0, <<>>, sales2019, sales2021)} :
           /\ analysisSheet' = summary
           /\ qualifyingQuarters' = collected.list
           /\ quarterAnalysis' = mapped.entries
           /\ pc' = Outcome(mapped.threw, reportsDir)

\* The call of part_000, line 175, which passes its reports directory.  The
\* submission of the call gives quarter q the figures pair, and the other
\* quarters the figures they had in the submission of the call before.
GenerateExcelReport(q, pair) ==
    /\ RunAnalysis([grossSales2019 EXCEPT ![q] = pair[1]],
                   [grossSales2021 EXCEPT ![q] = pair[2]],
                   Str("reports"))
    /\ UNCHANGED <<webhookVars, dbVars>>

-----------------------------------------------------------------------------
(* POST /webhook (src/webhook-receiver.js) *)

\* Requests posted in a run of the model.
MaxRequests == 2

\* Files uploaded with a request, at most.
MaxFiles == 2

\* Milliseconds the clock advances in a run of the model.
MaxNow == 1

Requests == 1..MaxRequests

Sales(a, b, c) ==
    [q \in QuarterKeys |-> CASE q = "q1" -> a [] q = "q2" -> b [] OTHER -> c]

\* formData.requestedInfo of the submissions posted:
\* <<gross_sales_2019, gross_sales_2021>>.
RequestedInfos ==
    { <<NoSales, NoSales>>,
      <<Sales(Whole(10000), Undefined, Undefined),
        Sales(Whole(4000), Undefined, Undefined)>>,
      <<Sales(Whole(10000), Whole(5000), Whole(8000)),
        Sales(Whole(4000), Whole(5000), Whole(0))>> }

\* Date.now().toString()
NumberToString(n) == Digits(n)

\* let qualificationData = null
NoQualificationData ==
    [isNull |-> TRUE, qualifyingQuarters |-> <<>>, quarterAnalysis |-> <<>>]

\* A handler that has not been called.
NoRequest ==
    [at |-> "waiting", submissionId |-> "", requestedInfo |-> <<NoSales, NoSales>>,
     files |-> 0, fileIndex |-> 1, receivedFiles |-> <<>>, gridFSFiles |-> <<>>,
     uploadErrors |-> <<>>, reportError |-> FALSE, fileId |-> Null,
     qualificationData |-> NoQualificationData, saveSucceeded |-> FALSE]

NoResponse ==
    [status |-> 0, success |-> FALSE, reportGenerated |-> FALSE,
     filesStoredInGridFS |-> 0, mongoDbStorage |-> FALSE,
     qualifyingQuarters |-> <<>>]

\* fileId !== undefined
FileIdDefined(fileId) == fileId.type # "undefined"

\* !!fileId
ReportGenerated(fileId) == Truthy(fileId)

\* mongoResult with success true whether or not the save succeeded.
MongoResultAlwaysSuccess(saved) == [success |-> TRUE]

\* mongoResult: success true after submission.save(), false in the catch block.
MongoResult(saved) == [success |-> saved]

\* res.status(500).json({ success: false, ... })
ErrorResponse == [NoResponse EXCEPT !.status = 500]

\* res.status(200).json({ ... })
OkResponse(rec, saved) ==
    [status |-> 200, success |-> TRUE,
     reportGenerated |-> ReportGenerated(rec.fileId),
     filesStoredInGridFS |-> Len(rec.gridFSFiles),
     mongoDbStorage |-> MongoResult(saved).success,
     qualifyingQuarters |->
         IF rec.qualificationData.isNull THEN <<>>
         ELSE rec.qualificationData.qualifyingQuarters]

\* new Submission({ ... })
SubmissionDocument(rec) ==
    [submissionId |-> rec.submissionId,
     originalData |-> rec.requestedInfo,
     receivedFiles |-> rec.receivedFiles,
     gridFSFiles |-> rec.gridFSFiles,
     report |-> [generated |-> ReportGenerated(rec.fileId),
                 fileId |-> rec.fileId,
                 qualificationData |-> rec.qualificationData]]

\* fs.writeFileSync(submissionFile, ...): a file of the same name is replaced.
WriteSubmissionFile(files, rec) ==
    {f \in files : f.id # rec.submissionId}
        \cup {[id |-> rec.submissionId, originalData |-> rec.requestedInfo,
               receivedFiles |-> rec.receivedFiles]}

\* Lines 172-246, which run without suspension once the files are done: the
\* submission file is written, generateExcelReport is called with two arguments
\* (no reportsDir) and its error is caught, and submission.save() is started.
\* A failure to write the submission file is caught by the outer catch block.
ProcessSubmission(r, rec, written) ==
    IF written
    THEN /\ submissionFiles' = WriteSubmissionFile(submissionFiles, rec)
         /\ RunAnalysis(rec.requestedInfo[1], rec.requestedInfo[2], Undefined)
         /\ request' =
               [request EXCEPT ![r] =
                   [rec EXCEPT
                       !.at = "saving",
                       !.reportError = (pc' = "threw"),
                       !.fileId = IF pc' = "threw" THEN Null ELSE Undefined,
                       !.qualificationData =
                           IF pc' = "threw" THEN NoQualificationData
                           ELSE [isNull |-> FALSE,
                                 qualifyingQuarters |-> qualifyingQuarters',
                                 quarterAnalysis |-> quarterAnalysis']]]
         /\ UNCHANGED response
    ELSE /\ request' = [request EXCEPT ![r] = [rec EXCEPT !.at = "done"]]
         /\ response' = [response EXCEPT ![r] = ErrorResponse]
         /\ UNCHANGED <<submissionFiles, analysisVars>>

\* The for loop over req.files: the next file is handed to storeFileInGridFS and
\* awaited, or the handler goes on after the last one.
ContinueWithFiles(r, rec) ==
    IF rec.fileIndex <= rec.files
    THEN /\ request' = [request EXCEPT ![r] = [rec EXCEPT !.at = "storing"]]
         /\ UNCHANGED <<response, submissionFiles, analysisVars>>
    ELSE \E written \in BOOLEAN : ProcessSubmission(r, rec, written)

\* A request arrives with the requestedInfo and the number of files given.
ReceiveWebhook(r, requestedInfo, files) ==
    /\ running
    /\ request[r].at = "waiting"
    /\ \A earlier \in 1..(r - 1) : request[earlier].at # "waiting"
    /\ ContinueWithFiles(r, [NoRequest EXCEPT !.submissionId = NumberToString(now),
                                              !.requestedInfo = requestedInfo,
                                              !.files = files])
    /\ UNCHANGED <<now, running, collection, dbVars>>

\* uploadStream emits 'finish': storeFileInGridFS resolves and the file is
\* pushed to both lists.
FileStored(r) ==
    /\ running
    /\ request[r].at = "storing"
    /\ ContinueWithFiles(r,
          [request[r] EXCEPT
              !.receivedFiles = Append(@, request[r].fileIndex),
              !.gridFSFiles = Append(@, request[r].fileIndex),
              !.fileIndex = @ + 1])
    /\ UNCHANGED <<now, running, collection, dbVars>>

\* uploadStream emits 'error' (or GridFSBucket throws): storeFileInGridFS
\* rejects and the catch block of the loop skips the file.
FileUploadFailed(r) ==
    /\ running
    /\ request[r].at = "storing"
    /\ ContinueWithFiles(r,
          [request[r] EXCEPT
              !.uploadErrors = Append(@, request[r].fileIndex),
              !.fileIndex = @ + 1])
    /\ UNCHANGED <<now, running, collection, dbVars>>

\* fileStream emits 'error': it has no 'error' listener and pipe does not pass
\* the error on, so the promise is never settled; the unhandled 'error' event
\* is thrown and ends the process.
FileReadFailed(r) ==
    /\ running
    /\ request[r].at = "storing"
    /\ running' = FALSE
    /\ UNCHANGED <<now, request, response, submissionFiles, collection,
                   analysisVars, dbVars>>

\* submission.save() settles (it fails on a duplicate submissionId, or for any
\* other reason) and the 200 response is sent.
SaveSettled(r, saved) ==
    /\ running
    /\ request[r].at = "saving"
    /\ saved => \A d \in collection : d.submissionId # request[r].submissionId
    /\ collection' =
          IF saved THEN collection \cup {SubmissionDocument(request[r])}
          ELSE collection
    /\ response' = [response EXCEPT ![r] = OkResponse(request[r], saved)]
    /\ request' = [request EXCEPT ![r].at = "done", ![r].saveSucceeded = saved]
    /\ UNCHANGED <<now, running, submissionFiles, analysisVars, dbVars>>

\* A millisecond passes.
Tick ==
    /\ running
    /\ now < MaxNow
    /\ now' = now + 1
    /\ UNCHANGED <<running, request, response, submissionFiles, collection,
                   analysisVars, dbVars>>

-----------------------------------------------------------------------------
(* connectToDatabase (src/db-connection.js) *)

\* Calls of connectToDatabase in a run of the model.
MaxCalls == 4

Callers == 1..MaxCalls

NotCalled == [at |-> "idle", result |-> FALSE]

Returned(result) == [at |-> "returned", result |-> result]

\* The retry guard left out: no earlier attempt is ever seen.
NeverSkipRetry == FALSE

\* if (connectionAttempted): an earlier attempt is not retried.
SkipRetry == connectionAttempted

\* connectToDatabase is called: lines 14-38, up to the await of
\* mongoose.connect or to an early return.
CallConnectToDatabase(c) ==
    /\ caller[c].at = "idle"
    /\ IF ~uriDefined
       THEN /\ caller' = [caller EXCEPT ![c] = Returned(FALSE)]
            /\ UNCHANGED <<connectionAttempted, connectCalls>>
       ELSE IF isConnected
       THEN /\ caller' = [caller EXCEPT ![c] = Returned(TRUE)]
            /\ UNCHANGED <<connectionAttempted, connectCalls>>
       ELSE IF SkipRetry
       THEN /\ caller' = [caller EXCEPT ![c] = Returned(FALSE)]
            /\ UNCHANGED <<connectionAttempted, connectCalls>>
       ELSE /\ connectionAttempted' = TRUE
            /\ connectCalls' = connectCalls + 1
            /\ caller' = [caller EXCEPT ![c].at = "connecting"]
    /\ UNCHANGED <<uriDefined, isConnected, mongooseConnected, analysisVars,
                   webhookVars>>

\* mongoose.connect resolves: lines 44-48, up to the await of listCollections.
ConnectResolved(c) ==
    /\ caller[c].at = "connecting"
    /\ mongooseConnected' = TRUE
    /\ isConnected' = TRUE
    /\ caller' = [caller EXCEPT ![c].at = "listing"]
    /\ UNCHANGED <<uriDefined, connectionAttempted, connectCalls, analysisVars,
                   webhookVars>>

\* mongoose.connect rejects: the catch block.
ConnectRejected(c) ==
    /\ caller[c].at = "connecting"
    /\ isConnected' = FALSE
    /\ caller' = [caller EXCEPT ![c] = Returned(FALSE)]
    /\ UNCHANGED <<uriDefined, connectionAttempted, mongooseConnected,
                   connectCalls, analysisVars, webhookVars>>

\* listCollections().toArray() resolves: return true.
ListResolved(c) ==
    /\ caller[c].at = "listing"
    /\ caller' = [caller EXCEPT ![c] = Returned(TRUE)]
    /\ UNCHANGED <<uriDefined, isConnected, connectionAttempted,
                   mongooseConnected, connectCalls, analysisVars, webhookVars>>

\* listCollections().toArray() rejects: the catch block clears the flag; the
\* connection that mongoose.connect established stays.
ListRejected(c) ==
    /\ caller[c].at = "listing"
    /\ isConnected' = FALSE
    /\ caller' = [caller EXCEPT ![c] = Returned(FALSE)]
    /\ UNCHANGED <<uriDefined, connectionAttempted, mongooseConnected,
                   connectCalls, analysisVars, webhookVars>>

-----------------------------------------------------------------------------
(* Specifications *)

\* No report has been generated and no request has arrived yet.
Init ==
    /\ grossSales2019 = NoSales
    /\ grossSales2021 = NoSales
    /\ analysisSheet = <<>>
    /\ qualifyingQuarters = <<>>
    /\ quarterAnalysis = <<>>
    /\ pc = "idle"
    /\ now = 0
    /\ running = TRUE
    /\ request = [r \in Requests |-> NoRequest]
    /\ response = [r \in Requests |-> NoResponse]
    /\ submissionFiles = {}
    /\ collection = {}
    /\ uriDefined \in BOOLEAN
    /\ isConnected = FALSE
    /\ connectionAttempted = FALSE
    /\ mongooseConnected = FALSE
    /\ connectCalls = 0
    /\ caller = [c \in Callers |-> NotCalled]

Next == \E q \in QuarterKeys, pair \in FigurePairs : GenerateExcelReport(q, pair)

Spec == Init /\ [][Next]_vars

NextWebhook ==
    \/ \E r \in Requests, requestedInfo \in RequestedInfos, files \in 0..MaxFiles :
          ReceiveWebhook(r, requestedInfo, files)
    \/ \E r \in Requests : FileStored(r)
    \/ \E r \in Requests : FileUploadFailed(r)
    \/ \E r \in Requests : FileReadFailed(r)
    \/ \E r \in Requests, saved \in BOOLEAN : SaveSettled(r, saved)
    \/ Tick

SpecWebhook == Init /\ [][NextWebhook]_vars

\* A stream handed to GridFS eventually emits 'finish' or 'error', and
\* submission.save() eventually settles.
FairSpecWebhook ==
    /\ SpecWebhook
    /\ \A r \in Requests :
          /\ WF_vars(FileStored(r) \/ FileUploadFailed(r) \/ FileReadFailed(r))
          /\ WF_vars(\E saved \in BOOLEAN : SaveSettled(r, saved))

NextDb ==
    \/ \E c \in Callers : CallConnectToDatabase(c)
    \/ \E c \in Callers : ConnectResolved(c)
    \/ \E c \in Callers : ConnectRejected(c)
    \/ \E c \in Callers : ListResolved(c)
    \/ \E c \in Callers : ListRejected(c)

SpecDb == Init /\ [][NextDb]_vars

-----------------------------------------------------------------------------
(* Properties *)

\* A call of generateExcelReport has run.
Finished == pc # "idle"

\* The indices (from 1) of the quarterAnalysis entries that were built.
Entries == 1..Len(quarterAnalysis)

QuarterNumbers == 1..Len(quarters)

\* The label under which the result of quarter n is reported.
LabelOf(n) == <<"Quarter 1", "Quarter 2", "Quarter 3">>[n]

\* The normalized figures of quarter n, in hundredths.
Baseline(n) == Revenue(grossSales2019, quarters[n]).num
Comparison(n) == Revenue(grossSales2021, quarters[n]).num

Listed(label) == \E i \in 1..Len(qualifyingQuarters) : qualifyingQuarters[i] = label

\* The worksheet row that was appended for quarter n.
SheetRowOf(n) == analysisSheet[1 + Len(IntroRows) + n]

SameFigures(n) ==
    /\ grossSales2019'[quarters[n]] = grossSales2019[quarters[n]]
    /\ grossSales2021'[quarters[n]] = grossSales2021[quarters[n]]

\* C2: the percentDecrease and qualifies reported under 'Quarter N' depend only
\* on the figures of quarter N: a call whose submission differs from the one
\* before only in other quarters reports the same two values under 'Quarter N'.
C2_DependsOnOwnFiguresOnly ==
    [][\A n \in QuarterNumbers :
          (Finished /\ SameFigures(n)
           /\ n <= Len(quarterAnalysis) /\ n <= Len(quarterAnalysis'))
          => /\ quarterAnalysis'[n].quarter = LabelOf(n)
             /\ quarterAnalysis'[n].percentDecrease = quarterAnalysis[n].percentDecrease
             /\ quarterAnalysis'[n].qualifies = quarterAnalysis[n].qualifies]_vars

\* The labels of the entries that qualify, in entry order.
RECURSIVE QualifyingLabels(_)
QualifyingLabels(entries) ==
    IF Len(entries) = 0 THEN <<>>
    ELSE (IF Head(entries).qualifies THEN <<Head(entries).quarter>> ELSE <<>>)
         \o QualifyingLabels(Tail(entries))

C4_NeverThrows == pc # "threw"

\* p (in hundredths of a percent) is (b - c) / b * 100 rounded to 2 decimals:
\* no more than 0.005 away from it.  b and c are whole amounts in hundredths.
IsRoundedPercent(p, b, c) ==
    LET wb == b \div 100
        wc == c \div 100
        diff == p * wb - 10000 * (wb - wc)
    IN  2 * (IF diff < 0 THEN -diff ELSE diff) <= wb

\* C5: for every quarter with baseline b > 0, the percentDecrease reported under
\* the quarter's label is (b - c) / b * 100 rounded to 2 decimals; when c > b it
\* is negative and the quarter does not qualify.
C5_PercentDecreaseIsRoundedRatio ==
    \A n \in Entries :
        Baseline(n) > 0 =>
            /\ ~quarterAnalysis[n].percentDecrease.nan
            /\ IsRoundedPercent(quarterAnalysis[n].percentDecrease.num,
                                Baseline(n), Comparison(n))
            /\ Comparison(n) > Baseline(n) =>
                  /\ quarterAnalysis[n].percentDecrease.num < 0
                  /\ ~quarterAnalysis[n].qualifies

\* C6: for every quarter whose baseline is zero, negative or missing, the
\* percentDecrease reported under the quarter's label is 0, qualifies is false
\* and the label is not in qualifyingQuarters.
C6_NoBaselineNeverQualifies ==
    \A n \in QuarterNumbers :
        Baseline(n) <= 0 =>
            /\ ~Listed(LabelOf(n))
            /\ n \in Entries =>
                  /\ quarterAnalysis[n].percentDecrease = Num(0)
                  /\ ~quarterAnalysis[n].qualifies

\* C7: after every call quarterAnalysis has exactly 3 entries, labelled
\* 'Quarter 1', 'Quarter 2', 'Quarter 3' in that order.
C7_ThreeEntriesInOrder ==
    Finished =>
        /\ Len(quarterAnalysis) = 3
        /\ \A n \in QuarterNumbers : quarterAnalysis[n].quarter = LabelOf(n)

\* A map entry that is missing or non-numeric.
Blank(x) ==
    \/ x.type \in {"undefined", "null"}
    \/ x.type = "string" /\ ParseFloat(x).nan

\* The entry is unchanged, or was blank and is now an explicit 0.
SameOrZeroForBlank(old, new) == new = old \/ (Blank(old) /\ new = Num(0))

\* C8: a submission in which missing or non-numeric entries are replaced by an
\* explicit 0 gives the same quarterAnalysis and the same qualifyingQuarters.
C8_BlankIsZero ==
    [][(/\ Finished
        /\ \A q \in QuarterKeys :
              /\ SameOrZeroForBlank(grossSales2019[q], grossSales2019'[q])
              /\ SameOrZeroForBlank(grossSales2021[q], grossSales2021'[q]))
       => /\ quarterAnalysis' = quarterAnalysis
          /\ qualifyingQuarters' = qualifyingQuarters]_vars

\* C9: in every entry, change is baseline - comparison on the normalized
\* figures (the revenues the entry echoes), also when the baseline is zero or
\* negative.
C9_ChangeIsBaselineMinusComparison ==
    \A n \in Entries :
        /\ quarterAnalysis[n].revenues.revenue2019.num = Baseline(n)
        /\ quarterAnalysis[n].revenues.revenue2021.num = Comparison(n)
        /\ quarterAnalysis[n].change = Num(Baseline(n) - Comparison(n))

\* C10: for every quarter with baseline b > 0 and comparison exactly b / 2, the
\* result reported under the quarter's label has percentDecrease 50.00 and
\* qualifies true, and the label is in qualifyingQuarters.
C10_ThresholdIsInclusive ==
    Finished =>
        \A n \in QuarterNumbers :
            (Baseline(n) > 0 /\ 2 * Comparison(n) = Baseline(n)) =>
                /\ Listed(LabelOf(n))
                /\ n \in Entries
                /\ quarterAnalysis[n].percentDecrease = Num(5000)
                /\ quarterAnalysis[n].qualifies

\* The submission gives the figures of the worked example: baseline
\* {q1: 10000, q2: 5000, q3: 8000}, comparison {q1: 4000, q2: 5000, q3: 0}.
ExampleFigures ==
    /\ grossSales2019["q1"] = Whole(10000) /\ grossSales2021["q1"] = Whole(4000)
    /\ grossSales2019["q2"] = Whole(5000) /\ grossSales2021["q2"] = Whole(5000)
    /\ grossSales2019["q3"] = Whole(8000) /\ grossSales2021["q3"] = Whole(0)

\* An entry of the expected result, amounts whole and the percentage in
\* hundredths.
ExpectedEntry(label, b, c, percent, verdict) ==
    [quarter |-> label,
     revenues |-> [revenue2019 |-> Whole(b), revenue2021 |-> Whole(c)],
     change |-> Whole(b - c),
     percentDecrease |-> Num(percent),
     qualifies |-> verdict]

\* C11: for the figures of the worked example the result is Quarter 1: change
\* 6000, 60.00 %, qualifies; Quarter 2: change 0, 0.00 %, does not qualify;
\* Quarter 3: change 8000, 100.00 %, qualifies; and qualifyingQuarters is
\* ['Quarter 1', 'Quarter 3'].
C11_WorkedExample ==
    (Finished /\ ExampleFigures) =>
        /\ quarterAnalysis =
              <<ExpectedEntry("Quarter 1", 10000, 4000, 6000, TRUE),
                ExpectedEntry("Quarter 2", 5000, 5000, 0, FALSE),
                ExpectedEntry("Quarter 3", 8000, 0, 10000, TRUE)>>
        /\ qualifyingQuarters = <<"Quarter 1", "Quarter 3">>

\* The labels of the quarters from n on whose data row shows 'Yes'.
RECURSIVE YesLabels(_)
YesLabels(n) ==
    IF n > Len(quarters) THEN <<>>
    ELSE (IF SheetRowOf(n)[6] = Str("Yes") THEN <<LabelOf(n)>> ELSE <<>>)
         \o YesLabels(n + 1)

\* The text of the closing summary row, the last row of the worksheet.
SummaryText == analysisSheet[Len(analysisSheet)][1].str

\* C14: the closing summary row lists exactly the quarters whose data row shows
\* Qualifies = 'Yes', in quarter order, and says that the client does not
\* qualify exactly when no data row shows 'Yes'.
C14_SummaryListsTheYesRows ==
    Finished =>
        SummaryText =
            IF YesLabels(1) = <<>>
            THEN "Client does not qualify based on revenue reduction alone"
            ELSE "Client qualifies based on revenue reduction for: "
                 \o Join(YesLabels(1), ", ")

\* C15: the rows read back by position are the rows written: for each index i
\* in 0..2 the row getRow(i + 8) is the data row appended for quarter i + 1, so
\* the percentDecrease and the verdict recorded under 'Quarter N' (in
\* quarterAnalysis and in qualifyingQuarters) are those of the worksheet row
\* labelled 'Quarter N'.
C15_RowsReadAreRowsWritten ==
    Finished =>
        \A n \in QuarterNumbers :
            /\ analysisSheet[(n - 1) + FirstReadRow] = SheetRowOf(n)
            /\ SheetRowOf(n)[1] = Str(LabelOf(n))
            /\ Listed(LabelOf(n)) <=> SheetRowOf(n)[6] = Str("Yes")
            /\ n \in Entries
            /\ quarterAnalysis[n].percentDecrease
                  = ParseFloat(Str(Replace(SheetRowOf(n)[5].str, "%", "")))
            /\ quarterAnalysis[n].qualifies <=> SheetRowOf(n)[6] = Str("Yes")

\* C16: for every quarter the Revenue Change of the worksheet data row equals
\* the change of the quarterAnalysis entry of the same quarter, and the two
\* revenue columns equal the revenues the entry echoes, also when the baseline
\* is zero or negative or a figure is missing or non-numeric.
C16_SheetAgreesWithEntries ==
    \A n \in Entries :
        /\ SheetRowOf(n)[2] = quarterAnalysis[n].revenues.revenue2019
        /\ SheetRowOf(n)[3] = quarterAnalysis[n].revenues.revenue2021
        /\ SheetRowOf(n)[4] = quarterAnalysis[n].change

-----------------------------------------------------------------------------
(* Properties of POST /webhook *)

\* The handler of request r has called generateExcelReport.
Reported(r) == request[r].at \in {"saving", "done"} /\ response[r].status # 500

\* The request got its response.
Answered(r) == response[r].status # 0

\* The Submission documents saved for request r.
DocumentsOf(r) ==
    {d \in collection : /\ d.submissionId = request[r].submissionId
                        /\ d.originalData = request[r].requestedInfo
                        /\ d.gridFSFiles = request[r].gridFSFiles}

\* Quarter n of the requestedInfo qualifies: its baseline is positive and the
\* decrease is at least 50 %.
QuarterQualifies(info, n) ==
    LET b == Revenue(info[1], quarters[n]).num
        c == Revenue(info[2], quarters[n]).num
    IN  b > 0 /\ 2 * (b - c) >= b

\* The qualifying-quarter list generateExcelReport computes for a requestedInfo.
ComputedQualifyingQuarters(info) ==
    CollectQualifying(SheetWithData(info[1], info[2]), 0, <<>>).list

\* C12: the qualifyingQuarters of the 200 response and the
\* report.qualificationData stored with the Submission are the list and the
\* per-quarter results that generateExcelReport computed for the submission,
\* and the response list is non-empty whenever some quarter qualifies.
C12_ResponseCarriesTheAnalysis ==
    \A r \in Requests :
        response[r].status = 200 =>
            /\ response[r].qualifyingQuarters
                  = ComputedQualifyingQuarters(request[r].requestedInfo)
            /\ (\E n \in QuarterNumbers : QuarterQualifies(request[r].requestedInfo, n))
                  => response[r].qualifyingQuarters # <<>>
            /\ \A d \in DocumentsOf(r) :
                  /\ ~d.report.qualificationData.isNull
                  /\ d.report.qualificationData.qualifyingQuarters
                        = response[r].qualifyingQuarters

\* A handler calls generateExcelReport in this step.
ReportCall == \E r \in Requests : ~Reported(r) /\ Reported(r)'

C18_EveryRequestAnswered ==
    \A r \in Requests : (request[r].at # "waiting") ~> Answered(r)

-----------------------------------------------------------------------------
(* Properties of connectToDatabase *)

\* Call c is made in this step.
Called(c) == caller[c].at = "idle" /\ caller'[c].at # "idle"

\* Call c returns in this step.
Returns(c) == caller[c].at # "returned" /\ caller'[c].at = "returned"

\* A call is waiting for mongoose.connect or for listCollections.
InFlight == \E c \in Callers : caller[c].at \in {"connecting", "listing"}

\* C19: over any sequence of connectToDatabase calls mongoose.connect is invoked
\* at most once: a call made when already connected returns true without
\* reconnecting, every call after a failed attempt returns false without
\* retrying, and with no MONGODB_URI every call returns false without attempting
\* a connection or marking an attempt.
C19_ConnectsAtMostOnce ==
    [][/\ connectCalls' <= 1
       /\ \A c \in Callers :
             Called(c) =>
                /\ (uriDefined /\ isConnected) =>
                      /\ caller'[c] = Returned(TRUE)
                      /\ connectCalls' = connectCalls
                /\ (uriDefined /\ connectionAttempted /\ ~isConnected /\ ~InFlight) =>
                      /\ caller'[c] = Returned(FALSE)
                      /\ connectCalls' = connectCalls
                /\ ~uriDefined =>
                      /\ caller'[c] = Returned(FALSE)
                      /\ connectCalls' = 0
                      /\ ~connectionAttempted']_vars

\* C19 witness: all calls have returned after a single mongoose.connect: the
\* one that connected and a later one returned true.
C19_Witness ==
    /\ connectCalls = 1
    /\ \A c \in Callers : caller[c].at = "returned"
    /\ \E c, d \in Callers :
          c # d /\ caller[c].result /\ caller[d].result

\* C20: whenever connectToDatabase returns, its result and the isConnected flag
\* equal the actual connection state: it returns false only if no connection is
\* established, also when connect succeeds and the following listCollections
\* fails.
C20_ResultIsTheConnectionState ==
    [][\A c \in Callers :
          Returns(c) =>
             /\ caller'[c].result = mongooseConnected'
             /\ isConnected' = mongooseConnected']_vars

-----------------------------------------------------------------------------
(* Properties of the file loop, the submission id and the save *)

\* The members of a list of files.
FilesIn(list) == {list[i] : i \in 1..Len(list)}

\* The list is in request order.
InRequestOrder(list) == \A i, j \in 1..Len(list) : i < j => list[i] < list[j]

\* The handler of request r is through with its files.
FilesDone(r) == request[r].fileIndex > request[r].files

\* C21: a failure to store one uploaded file in GridFS is caught per file: the
\* remaining files are still processed in request order, the failed file is in
\* neither receivedFiles nor gridFSFiles, the two lists have equal length and
\* the same file order, and filesStoredInGridFS of the response is the number
\* of files stored successfully.
C21_FileFailureIsCaughtPerFile ==
    \A r \in Requests :
        /\ [](/\ request[r].receivedFiles = request[r].gridFSFiles
              /\ InRequestOrder(request[r].gridFSFiles)
              /\ FilesIn(request[r].gridFSFiles)
                    \cap FilesIn(request[r].uploadErrors) = {}
              /\ response[r].status = 200 =>
                    response[r].filesStoredInGridFS = Len(request[r].gridFSFiles))
        /\ (request[r].at = "storing") ~> FilesDone(r)

\* The part of C21 about failures that storeFileInGridFS reports by rejecting:
\* every file handled so far is in both lists or was rejected, and a request
\* answered 200 has handled all its files.
FileLoopSkipsRejectedFiles ==
    \A r \in Requests :
        /\ request[r].receivedFiles = request[r].gridFSFiles
        /\ InRequestOrder(request[r].gridFSFiles)
        /\ FilesIn(request[r].gridFSFiles) \cap FilesIn(request[r].uploadErrors) = {}
        /\ FilesIn(request[r].gridFSFiles) \cup FilesIn(request[r].uploadErrors)
              = 1..(request[r].fileIndex - 1)
        /\ response[r].status = 200 =>
              /\ FilesDone(r)
              /\ response[r].filesStoredInGridFS
                    = request[r].files - Len(request[r].uploadErrors)

\* The handler of request r has been called.
Arrived(r) == request[r].at # "waiting"

\* C22: any two distinct requests get different submissionIds, so the
\* submission_<id>.json file written for one request is never overwritten by
\* another.
C22_SubmissionIdsAreUnique ==
    \A r, other \in Requests :
        (r # other /\ Arrived(r) /\ Arrived(other)) =>
            /\ request[r].submissionId # request[other].submissionId
            /\ Reported(r) =>
                  \E f \in submissionFiles :
                      /\ f.id = request[r].submissionId
                      /\ f.originalData = request[r].requestedInfo
                      /\ f.receivedFiles = request[r].receivedFiles

\* C23: a failed Submission save is caught: the request still gets a 200
\* response with success true, mongoDbStorage is true exactly when
\* submission.save() succeeded, and the submission file is on disk before the
\* report generation and the save are attempted, whatever their outcome.
C23_FailedSaveStillAnswers200 ==
    \A r \in Requests :
        /\ Reported(r) =>
              \E f \in submissionFiles : f.id = request[r].submissionId
        /\ (Reported(r) /\ request[r].at = "done") =>
              /\ response[r].status = 200
              /\ response[r].success
              /\ response[r].mongoDbStorage <=> request[r].saveSucceeded
              /\ request[r].saveSucceeded =>
                    \E d \in collection : d.submissionId = request[r].submissionId

\* C23 witness: the save of a request failed and the request was answered 200
\* with success true and mongoDbStorage false; its submission file is on disk.
C23_Witness ==
    \E r \in Requests :
        /\ request[r].at = "done"
        /\ ~request[r].saveSucceeded
        /\ response[r].status = 200
        /\ response[r].success
        /\ ~response[r].mongoDbStorage
        /\ \E f \in submissionFiles : f.id = request[r].submissionId

====
